---- MODULE Spec2Model ----
(***************************************************************************)
(* UNO score tracker: the App component (game state, localStorage          *)
(* persistence, setup, round update, reset), the GameSetup form and the    *)
(* ScoreInput form, as one state machine.                                  *)
(*                                                                         *)
(* Strings are sequences of one-character strings, so that parseInt, trim  *)
(* and number formatting are computed rather than assumed.  A JavaScript   *)
(* number that may be NaN (the two count fields of the setup form) is a    *)
(* sequence: <<>> is NaN, <<n>> is the integer n.                          *)
(***************************************************************************)
EXTENDS Integers, Sequences, FiniteSets, TLC

(* ------------------------------ bounds -------------------------------- *)

\* Largest absolute value the auto-calculation may write into a score field:
\* the fields are unbounded integers, and alternating edits and
\* auto-calculations make them grow without limit.
MaxScore == 2

(* ------------------------- program constants -------------------------- *)

MIN_PLAYERS == 2
MAX_PLAYERS == 10
MIN_ROUNDS == 1
MAX_ROUNDS == 50

\* The messages of setError, by what they say.
ERR_NONE == "none"
ERR_MIN_PLAYERS == "at least 2 players required"
ERR_MIN_ROUNDS == "at least 1 round required"
ERR_EMPTY_NAME == "all player names required"
ERR_DUPLICATE_NAME == "player names must be unique"
ERR_NO_SCORES == "enter at least one player's score"
ERR_ZERO_SUM == "round total must equal zero"

(* -------------------------------- state -------------------------------- *)

VARIABLES
  gameState,            \* App: the game state
  storage,              \* localStorage: the item under STORAGE_KEY
  playerCount,          \* GameSetup: a number, possibly NaN
  playerNames,          \* GameSetup
  totalRounds,          \* GameSetup: a number, possibly NaN
  roundMultipliers,     \* GameSetup
  setupError,           \* GameSetup: error
  showMultiplierSetup,  \* GameSetup
  scores,               \* ScoreInput
  scoreError,           \* ScoreInput: error
  calculatedIndex,      \* ScoreInput: one-based, 0 for null
  last                  \* history: the last operation, the state and the inputs
                        \* it started from (ok: the answer to window.confirm)

appVars == <<gameState, storage>>
setupVars ==
  <<playerCount, playerNames, totalRounds, roundMultipliers, setupError,
    showMultiplierSetup>>
scoreVars == <<scores, scoreError, calculatedIndex>>
vars == <<appVars, setupVars, scoreVars, last>>

(* ------------------------ JavaScript primitives ------------------------ *)

NaN == <<>>
Num(n) == <<n>>
IsNaN(x) == x = NaN
Val(x) == x[1]

\* a < b and a > b on numbers: false as soon as one side is NaN.
JsLt(a, b) == ~IsNaN(a) /\ ~IsNaN(b) /\ Val(a) < Val(b)
JsGt(a, b) == ~IsNaN(a) /\ ~IsNaN(b) /\ Val(a) > Val(b)

Digits == <<"0", "1", "2", "3", "4", "5", "6", "7", "8", "9">>
IsDigit(c) == \E d \in 1..10 : Digits[d] = c
DigitVal(c) == (CHOOSE d \in 1..10 : Digits[d] = c) - 1
IsSpace(c) == c = " "

\* String(n) for a natural number, and for an integer.
RECURSIVE NatToStr(_)
NatToStr(n) ==
  IF n < 10 THEN <<Digits[n + 1]>>
  ELSE NatToStr(n \div 10) \o <<Digits[(n % 10) + 1]>>

NumToStr(n) == IF n < 0 THEN <<"-">> \o NatToStr(0 - n) ELSE NatToStr(n)

RECURSIVE TrimStart(_)
TrimStart(s) ==
  IF s # <<>> /\ IsSpace(Head(s)) THEN TrimStart(Tail(s)) ELSE s

RECURSIVE TrimEnd(_)
TrimEnd(s) ==
  IF s # <<>> /\ IsSpace(s[Len(s)]) THEN TrimEnd(SubSeq(s, 1, Len(s) - 1)) ELSE s

\* String.prototype.trim
Trim(s) == TrimEnd(TrimStart(s))

\* The value of the longest prefix of digits of s, continuing from acc.
RECURSIVE LeadingDigits(_, _)
LeadingDigits(s, acc) ==
  IF s # <<>> /\ IsDigit(Head(s))
  THEN LeadingDigits(Tail(s), 10 * acc + DigitVal(Head(s)))
  ELSE acc

\* parseInt(s): leading whitespace, an optional sign, then digits; anything
\* after the digits is ignored; no digit at all gives NaN.
ParseInt(s) ==
  LET t == TrimStart(s)
      signed == t # <<>> /\ Head(t) \in {"+", "-"}
      u == IF signed THEN Tail(t) ELSE t
      mag == LeadingDigits(u, 0)
  IN  IF u = <<>> \/ ~IsDigit(Head(u)) THEN NaN
      ELSE IF signed /\ Head(t) = "-" THEN Num(0 - mag) ELSE Num(mag)

\* Array(n).fill(0); Array(n) throws a RangeError unless n is a valid length.
ValidArrayLength(n) == ~IsNaN(n) /\ Val(n) >= 0
Zeros(n) == [j \in 1..n |-> 0]

\* arr.reduce((sum, x) => sum + x, 0)
RECURSIVE SumSeq(_)
SumSeq(s) == IF s = <<>> THEN 0 ELSE Head(s) + SumSeq(Tail(s))

\* arr.findIndex(x => x === 0), one-based; 0 when there is none (-1 in JS).
FindZeroIndex(s) ==
  IF \E i \in 1..Len(s) : s[i] = 0
  THEN CHOOSE i \in 1..Len(s) : s[i] = 0 /\ \A j \in 1..(i - 1) : s[j] # 0
  ELSE 0

(* ----------------------------- game state ------------------------------ *)

EmptyState ==
  [players |-> <<>>, currentRound |-> 0, totalRounds |-> 0,
   isGameSetup |-> FALSE, roundMultipliers |-> <<>>]

\* gameState.isGameSetup as a condition: an absent field is undefined, falsy.
IsSetUp(gs) == "isGameSetup" \in DOMAIN gs /\ gs.isGameSetup = TRUE

\* The GameSetup form is rendered.
GameSetupShown(gs) == ~IsSetUp(gs)

\* The ScoreInput form is rendered.
ScoreInputShown(gs) == IsSetUp(gs) /\ gs.currentRound < gs.totalRounds

(* ----------------------- persistence (JSON text) ----------------------- *)

\* A JSON text is held as its syntax tree: an object is a record, an array a
\* sequence, and every number, string and boolean is the token it is written
\* as.  The value under localStorage's key is one of
\*   [kind |-> "absent"]     getItem returns null
\*   [kind |-> "empty"]      the empty string
\*   [kind |-> "malformed"]  a text JSON.parse throws on
\*   [kind |-> "json"]       a JSON text, doc its syntax tree
AbsentItem == [kind |-> "absent", doc |-> <<>>]
EmptyItem == [kind |-> "empty", doc |-> <<>>]
MalformedItem == [kind |-> "malformed", doc |-> <<>>]
JsonItem(doc) == [kind |-> "json", doc |-> doc]

JsonNumber(n) == NumToStr(n)
JsonString(s) == <<"\"">> \o s \o <<"\"">>
JsonBoolean(b) == IF b THEN <<"t", "r", "u", "e">> ELSE <<"f", "a", "l", "s", "e">>

ParseJsonNumber(t) == Val(ParseInt(t))
ParseJsonString(t) == SubSeq(t, 2, Len(t) - 1)
ParseJsonBoolean(t) == t = <<"t", "r", "u", "e">>

StringifyPlayer(p) ==
  [id |-> JsonNumber(p.id),
   name |-> JsonString(p.name),
   scores |-> [j \in 1..Len(p.scores) |-> JsonNumber(p.scores[j])],
   totalScore |-> JsonNumber(p.totalScore)]

ParsePlayer(d) ==
  [id |-> ParseJsonNumber(d.id),
   name |-> ParseJsonString(d.name),
   scores |-> [j \in 1..Len(d.scores) |-> ParseJsonNumber(d.scores[j])],
   totalScore |-> ParseJsonNumber(d.totalScore)]

StringifyField(k, v) ==
  CASE k = "players" -> [i \in 1..Len(v) |-> StringifyPlayer(v[i])]
    [] k = "roundMultipliers" -> [i \in 1..Len(v) |-> JsonNumber(v[i])]
    [] k = "isGameSetup" -> JsonBoolean(v)
    [] OTHER -> JsonNumber(v)

ParseField(k, d) ==
  CASE k = "players" -> [i \in 1..Len(d) |-> ParsePlayer(d[i])]
    [] k = "roundMultipliers" -> [i \in 1..Len(d) |-> ParseJsonNumber(d[i])]
    [] k = "isGameSetup" -> ParseJsonBoolean(d)
    [] OTHER -> ParseJsonNumber(d)

\* JSON.stringify(gameState) and JSON.parse(savedState): every field that is
\* there is written, and read back, whatever the set of fields is.
JSONstringify(gs) == [k \in DOMAIN gs |-> StringifyField(k, gs[k])]
JSONparse(doc) == [k \in DOMAIN doc |-> ParseField(k, doc[k])]

\* LoadState as if the saved item were never restored.
MutLoadState(savedState) == EmptyState

\* The useState initializer: a falsy item (null, "") and a text that fails
\* to parse give the default state; any text that parses is returned as is.
LoadState(savedState) ==
  IF savedState.kind \in {"absent", "empty"} THEN EmptyState
  ELSE IF savedState.kind = "malformed" THEN EmptyState
  ELSE JSONparse(savedState.doc)

\* localStorage.setItem(STORAGE_KEY, JSON.stringify(gameState)), the effect
\* that runs after the first render and after every setGameState.
PersistEffect(gs) == JsonItem(JSONstringify(gs))

\* localStorage.removeItem(STORAGE_KEY)
RemoveItem(item) == AbsentItem

(* ------------------------- App: state updates -------------------------- *)

\* handleGameSetup throws (Array(totalRounds)) before it sets any state.
GameSetupThrows(rounds) == ~ValidArrayLength(rounds)

\* HandleGameSetup as if the ids were counted from 1.
MutHandleGameSetup(names, rounds, multipliers) ==
  [players |-> [i \in 1..Len(names) |->
                  [id |-> i, name |-> names[i],
                   scores |-> Zeros(Val(rounds)), totalScore |-> 0]],
   currentRound |-> 0,
   totalRounds |-> Val(rounds),
   isGameSetup |-> TRUE,
   roundMultipliers |-> multipliers]

\* handleGameSetup: the state it passes to setGameState; rounds is a number.
HandleGameSetup(names, rounds, multipliers) ==
  [players |-> [i \in 1..Len(names) |->
                  [id |-> i - 1, name |-> names[i],
                   scores |-> Zeros(Val(rounds)), totalScore |-> 0]],
   currentRound |-> 0,
   totalRounds |-> Val(rounds),
   isGameSetup |-> TRUE,
   roundMultipliers |-> multipliers]

\* UpdatedPlayer as if the new scores were not copied from the old ones.
MutUpdatedPlayer(player, round, value) ==
  LET newScores == [j \in 1..Len(player.scores) |-> IF j = round + 1 THEN value ELSE 0]
  IN  [player EXCEPT !.scores = newScores, !.totalScore = SumSeq(newScores)]

\* One player's entry after a round: the slot of the current round is
\* overwritten and the total recomputed over all slots.
UpdatedPlayer(player, round, value) ==
  LET newScores == [player.scores EXCEPT ![round + 1] = value]
  IN  [player EXCEPT !.scores = newScores, !.totalScore = SumSeq(newScores)]

\* HandleScoreUpdate as if the round were never advanced.
MutHandleScoreUpdateNoAdvance(gs, sc) ==
  IF gs.currentRound >= gs.totalRounds THEN gs
  ELSE LET currentMultiplier == gs.roundMultipliers[gs.currentRound + 1]
       IN  [gs EXCEPT
              !.players = [i \in 1..Len(gs.players) |->
                             UpdatedPlayer(gs.players[i], gs.currentRound,
                                           sc[i] * currentMultiplier)]]

\* HandleScoreUpdate as if the multiplier were not applied.
MutHandleScoreUpdateNoMultiplier(gs, sc) ==
  IF gs.currentRound >= gs.totalRounds THEN gs
  ELSE [gs EXCEPT
          !.players = [i \in 1..Len(gs.players) |->
                         UpdatedPlayer(gs.players[i], gs.currentRound, sc[i])],
          !.currentRound = gs.currentRound + 1]

\* handleScoreUpdate: the next game state (the same state on the early return).
HandleScoreUpdate(gs, sc) ==
  IF gs.currentRound >= gs.totalRounds THEN gs
  ELSE LET currentMultiplier == gs.roundMultipliers[gs.currentRound + 1]
       IN  [gs EXCEPT
              !.players = [i \in 1..Len(gs.players) |->
                             UpdatedPlayer(gs.players[i], gs.currentRound,
                                           sc[i] * currentMultiplier)],
              !.currentRound = gs.currentRound + 1]

(* ------------------------------- inputs -------------------------------- *)

\* The default name of the player at one-based position i.
DefaultName(i) == <<"P">> \o NatToStr(i)

\* What is typed into the player-count field: nothing, 1, 2, 3, 11.
PlayerCountTexts == {<<>>, <<"1">>, <<"2">>, <<"3">>, <<"1", "1">>}

\* What is typed into the round-count field: nothing, 0, 1, 2, 51.
RoundTexts == {<<>>, <<"0">>, <<"1">>, <<"2">>, <<"5", "1">>}

\* What is typed into a name field: nothing, a blank, and the default name of
\* the first player (a duplicate when typed into another field).
NameTexts == {<<>>, <<" ">>, DefaultName(1)}

\* The options of a multiplier select that are chosen (of 1, 2, 3, 5).
MultiplierTexts == {<<"1">>, <<"2">>}

\* What is typed into a score field: nothing, 1, -1.
ScoreTexts == {<<>>, <<"1">>, <<"-", "1">>}

\* What the storage may hold when the page is first opened: nothing, the
\* empty string, a text that is no JSON, a saved game, an object that lacks
\* fields of the layout.
SavedGame ==
  [EmptyState EXCEPT
     !.players = <<[id |-> 0, name |-> <<"a">>, scores |-> <<0>>, totalScore |-> 0],
                   [id |-> 1, name |-> <<"b">>, scores |-> <<0>>, totalScore |-> 0]>>,
     !.totalRounds = 1, !.isGameSetup = TRUE, !.roundMultipliers = <<2>>]

InitialItems ==
  {AbsentItem, EmptyItem, MalformedItem,
   JsonItem(JSONstringify(SavedGame)),
   JsonItem([players |-> <<>>]),
   JsonItem([currentRound |-> <<"7">>])}

(* ------------------------ component life cycle ------------------------- *)

\* GameSetup's state when it mounts (and, in this model, while it is not
\* rendered).
SetupMounted ==
  /\ playerCount' = Num(2)
  /\ playerNames' = <<DefaultName(1), DefaultName(2)>>
  /\ totalRounds' = Num(1)
  /\ roundMultipliers' = <<1>>
  /\ setupError' = ERR_NONE
  /\ showMultiplierSetup' = FALSE

\* ScoreInput's state when it mounts for the players of gs; while it is not
\* rendered it has no state.
ScoreMounted(gs) ==
  /\ scores' = IF ScoreInputShown(gs) THEN Zeros(Len(gs.players)) ELSE <<>>
  /\ scoreError' = ERR_NONE
  /\ calculatedIndex' = 0

NoHistory ==
  [op |-> "edit", ok |-> TRUE, pre |-> EmptyState, store |-> AbsentItem,
   scores |-> <<>>, names |-> <<>>, rounds |-> NaN, mults |-> <<>>]

\* The page is opened with item in the storage: first render, then the effect.
Open(item) ==
  /\ gameState' = LoadState(item)
  /\ storage' = PersistEffect(gameState')
  /\ SetupMounted
  /\ ScoreMounted(gameState')

Init ==
  /\ gameState = EmptyState
  /\ storage = PersistEffect(EmptyState)
  /\ playerCount = Num(2)
  /\ playerNames = <<DefaultName(1), DefaultName(2)>>
  /\ totalRounds = Num(1)
  /\ roundMultipliers = <<1>>
  /\ setupError = ERR_NONE
  /\ showMultiplierSetup = FALSE
  /\ scores = <<>>
  /\ scoreError = ERR_NONE
  /\ calculatedIndex = 0
  /\ last = [NoHistory EXCEPT !.op = "open"]

\* The page as opened on any of the initial items.
InitLoad ==
  \E item \in InitialItems :
    /\ gameState = LoadState(item)
    /\ storage = PersistEffect(gameState)
    /\ playerCount = Num(2)
    /\ playerNames = <<DefaultName(1), DefaultName(2)>>
    /\ totalRounds = Num(1)
    /\ roundMultipliers = <<1>>
    /\ setupError = ERR_NONE
    /\ showMultiplierSetup = FALSE
    /\ scores = IF ScoreInputShown(gameState) THEN Zeros(Len(gameState.players)) ELSE <<>>
    /\ scoreError = ERR_NONE
    /\ calculatedIndex = 0
    /\ last = [NoHistory EXCEPT !.op = "open", !.store = item]

\* The page is reloaded: every component starts again from the storage.
Reload ==
  /\ Open(storage)
  /\ last' = [NoHistory EXCEPT !.op = "reload", !.pre = gameState, !.store = storage]

(* ------------------------------ GameSetup ------------------------------ *)

\* The names after the player count becomes count: padded with default names
\* or cut.
ResizedNames(prevNames, count) ==
  IF JsGt(count, Num(Len(prevNames)))
  THEN prevNames \o [i \in 1..(Val(count) - Len(prevNames)) |->
                       DefaultName(Len(prevNames) + i)]
  ELSE IF JsLt(count, Num(Len(prevNames)))
  THEN SubSeq(prevNames, 1, Val(count))
  ELSE prevNames

\* ResizedMultipliers as if the list were never cut.
MutResizedMultipliers(prevMultipliers, rounds) ==
  IF JsGt(rounds, Num(Len(prevMultipliers)))
  THEN prevMultipliers \o [i \in 1..(Val(rounds) - Len(prevMultipliers)) |-> 1]
  ELSE prevMultipliers

\* The multipliers after the round count becomes rounds: padded with 1 or cut.
ResizedMultipliers(prevMultipliers, rounds) ==
  IF JsGt(rounds, Num(Len(prevMultipliers)))
  THEN prevMultipliers \o [i \in 1..(Val(rounds) - Len(prevMultipliers)) |-> 1]
  ELSE IF JsLt(rounds, Num(Len(prevMultipliers)))
  THEN SubSeq(prevMultipliers, 1, Val(rounds))
  ELSE prevMultipliers

\* handlePlayerCountChange, text being e.target.value.
HandlePlayerCountChange(text) ==
  LET count == ParseInt(text)
  IN  /\ GameSetupShown(gameState)
      /\ IF JsLt(count, Num(MIN_PLAYERS)) \/ JsGt(count, Num(MAX_PLAYERS))
         THEN UNCHANGED <<playerCount, playerNames>>
         ELSE /\ playerCount' = count
              /\ playerNames' = ResizedNames(playerNames, count)
      /\ UNCHANGED <<totalRounds, roundMultipliers, setupError, showMultiplierSetup>>
      /\ UNCHANGED <<appVars, scoreVars>>
      /\ last' = NoHistory

\* handlePlayerNameChange
HandlePlayerNameChange(index, name) ==
  /\ GameSetupShown(gameState)
  /\ playerNames' = [playerNames EXCEPT ![index] = name]
  /\ UNCHANGED <<playerCount, totalRounds, roundMultipliers, setupError,
                 showMultiplierSetup>>
  /\ UNCHANGED <<appVars, scoreVars>>
  /\ last' = NoHistory

\* handleRoundChange, text being e.target.value.
HandleRoundChange(text) ==
  LET rounds == ParseInt(text)
  IN  /\ GameSetupShown(gameState)
      /\ IF JsLt(rounds, Num(MIN_ROUNDS)) \/ JsGt(rounds, Num(MAX_ROUNDS))
         THEN UNCHANGED <<totalRounds, roundMultipliers>>
         ELSE /\ totalRounds' = rounds
              /\ roundMultipliers' = ResizedMultipliers(roundMultipliers, rounds)
      /\ UNCHANGED <<playerCount, playerNames, setupError, showMultiplierSetup>>
      /\ UNCHANGED <<appVars, scoreVars>>
      /\ last' = NoHistory

\* handleMultiplierChange; the selects are rendered while the panel is shown.
HandleMultiplierChange(roundIndex, value) ==
  /\ GameSetupShown(gameState)
  /\ showMultiplierSetup
  /\ roundMultipliers' = [roundMultipliers EXCEPT ![roundIndex] = Val(ParseInt(value))]
  /\ UNCHANGED <<playerCount, playerNames, totalRounds, setupError,
                 showMultiplierSetup>>
  /\ UNCHANGED <<appVars, scoreVars>>
  /\ last' = NoHistory

\* toggleMultiplierSetup
ToggleMultiplierSetup ==
  /\ GameSetupShown(gameState)
  /\ showMultiplierSetup' = ~showMultiplierSetup
  /\ UNCHANGED <<playerCount, playerNames, totalRounds, roundMultipliers, setupError>>
  /\ UNCHANGED <<appVars, scoreVars>>
  /\ last' = NoHistory

\* The message of the first check of GameSetup's handleSubmit that fails,
\* ERR_NONE when all pass.
SetupValidation(count, names, rounds) ==
  IF JsLt(count, Num(2)) THEN ERR_MIN_PLAYERS
  ELSE IF JsLt(rounds, Num(1)) THEN ERR_MIN_ROUNDS
  ELSE IF \E i \in 1..Len(names) : Trim(names[i]) = <<>> THEN ERR_EMPTY_NAME
  ELSE IF Cardinality({names[i] : i \in 1..Len(names)}) # Len(names)
  THEN ERR_DUPLICATE_NAME
  ELSE ERR_NONE

\* GameSetup's handleSubmit, with App's handleGameSetup as its onSubmit.  The
\* handler checks the names itself and does not rely on the fields' required
\* attribute.
SetupSubmit ==
  LET verdict == SetupValidation(playerCount, playerNames, totalRounds)
      called == verdict = ERR_NONE /\ ~GameSetupThrows(totalRounds)
  IN  /\ GameSetupShown(gameState)
      /\ last' = [NoHistory EXCEPT
                    !.op = "setup", !.pre = gameState,
                    !.store = storage, !.names = playerNames,
                    !.rounds = totalRounds, !.mults = roundMultipliers]
      /\ IF called
         THEN /\ gameState' = HandleGameSetup(playerNames, totalRounds, roundMultipliers)
              /\ storage' = PersistEffect(gameState')
              /\ SetupMounted
              /\ ScoreMounted(gameState')
         ELSE /\ setupError' = verdict
              /\ UNCHANGED <<playerCount, playerNames, totalRounds, roundMultipliers,
                             showMultiplierSetup>>
              /\ UNCHANGED <<appVars, scoreVars>>

(* ------------------------------ ScoreInput ----------------------------- *)

\* handleScoreChange, value being e.target.value.
HandleScoreChange(index, value) ==
  LET scoreValue == IF value = <<>> THEN Num(0) ELSE ParseInt(value)
  IN  /\ ScoreInputShown(gameState)
      /\ calculatedIndex' = 0
      /\ scores' = [scores EXCEPT ![index] = IF IsNaN(scoreValue) THEN 0 ELSE Val(scoreValue)]
      /\ UNCHANGED scoreError
      /\ UNCHANGED <<appVars, setupVars>>
      /\ last' = NoHistory

\* The number of fields that hold a value other than 0.
FilledFieldsCount(sc) == Cardinality({i \in 1..Len(sc) : sc[i] # 0})

\* The auto-calculate button is enabled.
EnableAutoCalculate(sc, players) == FilledFieldsCount(sc) = Len(players) - 1

\* CalculatedScores as if the sum were not negated.
MutCalculatedScores(sc) ==
  LET emptyIndex == FindZeroIndex(sc)
      currentSum == SumSeq([i \in 1..Len(sc) |-> IF i = emptyIndex THEN 0 ELSE sc[i]])
  IN  IF emptyIndex = 0 THEN sc ELSE [sc EXCEPT ![emptyIndex] = currentSum]

\* The scores calculateLastScore sets: the first field that holds 0 becomes
\* minus the sum of the others; with no such field nothing changes.
CalculatedScores(sc) ==
  LET emptyIndex == FindZeroIndex(sc)
      currentSum == SumSeq([i \in 1..Len(sc) |-> IF i = emptyIndex THEN 0 ELSE sc[i]])
  IN  IF emptyIndex = 0 THEN sc ELSE [sc EXCEPT ![emptyIndex] = 0 - currentSum]

\* Every field is within the bound of the model.
WithinMaxScore(sc) == \A i \in 1..Len(sc) : sc[i] <= MaxScore /\ 0 - sc[i] <= MaxScore

\* calculateLastScore, the click of the auto-calculate button while enabled.
CalculateLastScore ==
  /\ ScoreInputShown(gameState)
  /\ EnableAutoCalculate(scores, gameState.players)
  /\ WithinMaxScore(CalculatedScores(scores))
  /\ scores' = CalculatedScores(scores)
  /\ calculatedIndex' = IF FindZeroIndex(scores) = 0 THEN calculatedIndex
                        ELSE FindZeroIndex(scores)
  /\ UNCHANGED scoreError
  /\ UNCHANGED <<appVars, setupVars>>
  /\ last' = [NoHistory EXCEPT !.op = "calc", !.pre = gameState, !.scores = scores]

\* scores.some(score => score !== 0 || score === 0)
HasScores(sc) == \E i \in 1..Len(sc) : sc[i] # 0 \/ sc[i] = 0

\* ScoreValidation as if the total were not checked.
MutScoreValidation(sc) == IF ~HasScores(sc) THEN ERR_NO_SCORES ELSE ERR_NONE

\* The message ScoreInput's handleSubmit rejects sc with, ERR_NONE when it
\* hands sc to onSubmit.
ScoreValidation(sc) ==
  IF ~HasScores(sc) THEN ERR_NO_SCORES
  ELSE IF SumSeq(sc) # 0 THEN ERR_ZERO_SUM
  ELSE ERR_NONE

\* ScoreInput's handleSubmit, with App's handleScoreUpdate as its onSubmit.
\* handleScoreUpdate sets the game state (and so runs the effect) unless it
\* returns early.
ScoreSubmit ==
  LET verdict == ScoreValidation(scores)
      next == HandleScoreUpdate(gameState, scores)
      updated == gameState.currentRound < gameState.totalRounds
  IN  /\ ScoreInputShown(gameState)
      /\ last' = [NoHistory EXCEPT
                    !.op = "round", !.pre = gameState, !.store = storage,
                    !.scores = scores]
      /\ IF verdict = ERR_NONE
         THEN /\ gameState' = next
              /\ storage' = IF updated THEN PersistEffect(next) ELSE storage
              /\ scoreError' = ERR_NONE
              /\ scores' = IF ScoreInputShown(next) THEN Zeros(Len(gameState.players))
                           ELSE <<>>
              /\ calculatedIndex' = 0
              /\ UNCHANGED setupVars
         ELSE /\ scoreError' = verdict
              /\ UNCHANGED <<scores, calculatedIndex>>
              /\ UNCHANGED <<appVars, setupVars>>

(* --------------------------------- App --------------------------------- *)

\* clearSavedGame, the click of the clear button (rendered once the game is
\* set up); confirmed is the answer to window.confirm.
ClearSavedGame(confirmed) ==
  /\ IsSetUp(gameState)
  /\ last' = [NoHistory EXCEPT
                !.op = "reset", !.ok = confirmed, !.pre = gameState,
                !.store = storage]
  /\ IF confirmed
     THEN /\ gameState' = EmptyState
          /\ storage' = PersistEffect(gameState')
          /\ SetupMounted
          /\ ScoreMounted(gameState')
     ELSE UNCHANGED <<appVars, setupVars, scoreVars>>

Next ==
  \/ \E text \in PlayerCountTexts : HandlePlayerCountChange(text)
  \/ \E index \in 1..Len(playerNames), name \in NameTexts :
       HandlePlayerNameChange(index, name)
  \/ \E text \in RoundTexts : HandleRoundChange(text)
  \/ \E roundIndex \in 1..Len(roundMultipliers), value \in MultiplierTexts :
       HandleMultiplierChange(roundIndex, value)
  \/ ToggleMultiplierSetup
  \/ SetupSubmit
  \/ \E index \in 1..Len(scores), value \in ScoreTexts : HandleScoreChange(index, value)
  \/ CalculateLastScore
  \/ ScoreSubmit
  \/ \E confirmed \in BOOLEAN : ClearSavedGame(confirmed)
  \/ Reload

\* The application from its first opening, nothing in the storage.
Spec == Init /\ [][Next]_vars

\* The application opened on a storage that may already hold an item.
SpecLoad == InitLoad /\ [][Next]_vars

(* ------------------------------- claims -------------------------------- *)

\* A round submission has just been handled / was handed on and recorded /
\* was refused with everything left as it was.
RoundSubmitted == last.op = "round"
RoundRecorded == RoundSubmitted /\ gameState # last.pre
RoundLeftUnchanged ==
  /\ gameState = last.pre
  /\ storage = last.store
  /\ scores = last.scores

\* C1: a round submission is recorded only if the entered scores sum to 0;
\* one whose scores do not sum to 0 gets the zero-sum message and leaves the
\* game state, the storage and the entered scores as they were.
ZeroSumRule ==
  RoundSubmitted =>
    /\ RoundRecorded => SumSeq(last.scores) = 0
    /\ SumSeq(last.scores) # 0 => scoreError = ERR_ZERO_SUM /\ RoundLeftUnchanged

\* A submission is refused in a game whose first round was recorded before.
ZeroSumRejected ==
  /\ RoundSubmitted
  /\ SumSeq(last.scores) # 0
  /\ scoreError = ERR_ZERO_SUM
  /\ gameState.currentRound = 1

\* The score lists of n fields, each -1, 0 or 1, that sum to 0.
ZeroSumScores(n) == {sc \in [1..n -> {0 - 1, 0, 1}] : SumSeq(sc) = 0}

\* C2: a submission that passes moves currentRound on by exactly 1, one that
\* is refused leaves the game state as it was, currentRound never passes
\* totalRounds, and once it has reached totalRounds no submission is taken:
\* the form is gone and handleScoreUpdate returns the state it was given.
RoundAdvance ==
  /\ RoundSubmitted =>
       IF scoreError = ERR_NONE
       THEN /\ last.pre.currentRound < last.pre.totalRounds
            /\ gameState.currentRound = last.pre.currentRound + 1
       ELSE gameState = last.pre
  /\ IsSetUp(gameState) =>
       /\ gameState.currentRound <= gameState.totalRounds
       /\ gameState.currentRound >= gameState.totalRounds =>
            /\ ~ScoreInputShown(gameState)
            /\ \A sc \in ZeroSumScores(Len(gameState.players)) :
                 HandleScoreUpdate(gameState, sc) = gameState

\* The second of two rounds has just been recorded: the game is over.
LastRoundRecorded ==
  /\ RoundRecorded
  /\ gameState.totalRounds = 2
  /\ gameState.currentRound = gameState.totalRounds

\* The scenario of the specification: A, B, C, two rounds, multipliers 1, 2.
ScenarioSetup == HandleGameSetup(<<<<"A">>, <<"B">>, <<"C">>>>, Num(2), <<1, 2>>)
ScenarioRound1 == HandleScoreUpdate(ScenarioSetup, <<5, 0 - 2, 0 - 3>>)
ScenarioRound2 == HandleScoreUpdate(ScenarioRound1, <<10, 0 - 10, 0>>)

\* C3: after a recorded round r every player's scores[r] is the entered
\* score times the multiplier of round r and every totalScore is the sum of
\* the player's scores; the scenario ends with totals 25, -22, -3 in round 2.
MultiplierApplication ==
  /\ RoundRecorded =>
       LET r == last.pre.currentRound + 1
       IN  \A i \in 1..Len(gameState.players) :
             /\ gameState.players[i].scores[r] =
                  last.scores[i] * last.pre.roundMultipliers[r]
             /\ gameState.players[i].totalScore = SumSeq(gameState.players[i].scores)
  /\ [i \in 1..3 |-> ScenarioRound2.players[i].scores] =
       <<<<5, 20>>, <<0 - 2, 0 - 20>>, <<0 - 3, 0>>>>
  /\ [i \in 1..3 |-> ScenarioRound2.players[i].totalScore] = <<25, 0 - 22, 0 - 3>>
  /\ ScenarioRound2.currentRound = 2

\* A second round with multiplier 2 was recorded for a player who scored in
\* both rounds.
DoubledRoundRecorded ==
  /\ RoundRecorded
  /\ last.pre.currentRound = 1
  /\ last.pre.roundMultipliers[2] = 2
  /\ \E i \in 1..Len(gameState.players) :
       /\ last.scores[i] # 0
       /\ last.pre.players[i].scores[1] # 0
       /\ gameState.players[i].totalScore # 0

\* A setup submission has just been handled / produced a game state.
SetupSubmitted == last.op = "setup"
SetupProduced == SetupSubmitted /\ gameState # last.pre

\* The message the four checks, in their order, call for on names and rounds.
FirstViolatedCheck(names, rounds) ==
  IF Len(names) < 2 THEN ERR_MIN_PLAYERS
  ELSE IF JsLt(rounds, Num(1)) THEN ERR_MIN_ROUNDS
  ELSE IF \E i \in 1..Len(names) : \A k \in 1..Len(names[i]) : IsSpace(names[i][k])
  THEN ERR_EMPTY_NAME
  ELSE IF \E i, j \in 1..Len(names) : i # j /\ names[i] = names[j]
  THEN ERR_DUPLICATE_NAME
  ELSE ERR_NONE

\* C4: a setup submission that violates one of the four checks is refused
\* with the message of the first one violated, the game state and the
\* storage staying as they were; one that violates none produces the game.
SetupValidationRule ==
  SetupSubmitted =>
    IF FirstViolatedCheck(last.names, last.rounds) = ERR_NONE
    THEN IsSetUp(gameState) /\ gameState # last.pre
    ELSE /\ setupError = FirstViolatedCheck(last.names, last.rounds)
         /\ gameState = last.pre
         /\ storage = last.store

\* C5: a setup that produced a game state produced it with one player per
\* name, ids from 0 in order, the names as given, as many zero scores as
\* rounds, totals 0, round 0, the round count and the multipliers as given.
SetupOutput ==
  SetupProduced =>
    /\ Len(gameState.players) = Len(last.names)
    /\ \A i \in 1..Len(last.names) :
         /\ gameState.players[i].id = i - 1
         /\ gameState.players[i].name = last.names[i]
         /\ Len(gameState.players[i].scores) = Val(last.rounds)
         /\ \A j \in 1..Val(last.rounds) : gameState.players[i].scores[j] = 0
         /\ gameState.players[i].totalScore = 0
    /\ gameState.currentRound = 0
    /\ gameState.totalRounds = Val(last.rounds)
    /\ gameState.isGameSetup = TRUE
    /\ gameState.roundMultipliers = last.mults

\* The setup of the scenario: three players, two rounds, multipliers 1, 2.
ScenarioSetupProduced ==
  /\ SetupProduced
  /\ Len(gameState.players) = 3
  /\ gameState.totalRounds = 2
  /\ gameState.roundMultipliers = <<1, 2>>

\* C6: after a setup or a round that changed the game state the storage
\* holds the serialization of the game state, a load of it gives that state
\* back, and the state after a reload is the state before it.
PersistenceRoundTrip ==
  /\ SetupProduced \/ RoundRecorded =>
       /\ storage = JsonItem(JSONstringify(gameState))
       /\ LoadState(storage) = gameState
  /\ last.op = "reload" => gameState = last.pre

\* A game with a negative score and a multiplier was reloaded.
NegativeScoreReloaded ==
  /\ last.op = "reload"
  /\ IsSetUp(gameState)
  /\ gameState.currentRound = 1
  /\ gameState.roundMultipliers[1] = 2
  /\ \E i \in 1..Len(gameState.players) : gameState.players[i].totalScore < 0

\* C7: after a confirmed reset the storage holds no item and the game state
\* is the empty state; a reset that is not confirmed changes neither.
ResetRule ==
  last.op = "reset" =>
    IF last.ok
    THEN storage = AbsentItem /\ gameState = EmptyState
    ELSE storage = last.store /\ gameState = last.pre

\* The fields of the persisted layout.
LayoutFields ==
  {"players", "currentRound", "totalRounds", "isGameSetup", "roundMultipliers"}

\* C8: the state the page opens with is the stored one only if the item
\* parses and has the layout; otherwise it is the empty state.
InitializeFallback ==
  last.op = "open" =>
    IF last.store.kind = "json" /\ DOMAIN last.store.doc = LayoutFields
    THEN gameState = JSONparse(last.store.doc)
    ELSE gameState = EmptyState

\* The auto-calculation has just run.
Calculated == last.op = "calc"

\* C9: the auto-calculation runs only on fields of which exactly one holds
\* 0; it sets that field to minus the sum of the others, leaves the others,
\* and the fields then sum to 0 and pass the check of the submission.
AutoDerivation ==
  Calculated =>
    LET before == last.scores
        empty == {i \in 1..Len(before) : before[i] = 0}
    IN  /\ Cardinality(empty) = 1
        /\ Len(scores) = Len(before)
        /\ \A i \in 1..Len(before) :
             IF i \in empty
             THEN scores[i] + SumSeq([j \in 1..Len(before) |->
                                        IF j = i THEN 0 ELSE before[j]]) = 0
             ELSE scores[i] = before[i]
        /\ SumSeq(scores) = 0
        /\ ScoreValidation(scores) = ERR_NONE

\* The third of three fields was calculated from two that do not cancel.
NonZeroDerived ==
  /\ Calculated
  /\ Len(scores) = 3
  /\ \E i \in 1..3 : last.scores[i] = 0 /\ scores[i] # 0

\* C10: in a set-up game there are at least 2 players and 1 round, one
\* multiplier and one score slot per round, 0 <= currentRound <= totalRounds,
\* and every total is the sum of the player's scores.
GameStateInvariants ==
  IsSetUp(gameState) =>
    /\ Len(gameState.players) >= 2
    /\ gameState.totalRounds >= 1
    /\ Len(gameState.roundMultipliers) = gameState.totalRounds
    /\ 0 <= gameState.currentRound
    /\ gameState.currentRound <= gameState.totalRounds
    /\ \A i \in 1..Len(gameState.players) :
         /\ Len(gameState.players[i].scores) = gameState.totalRounds
         /\ gameState.players[i].totalScore = SumSeq(gameState.players[i].scores)

\* A round was recorded in a game of three players and two rounds.
FullGameRoundRecorded ==
  /\ RoundRecorded
  /\ \E i \in 1..Len(gameState.players) : gameState.players[i].totalScore # 0
  /\ Len(gameState.players) = 3
  /\ gameState.totalRounds = 2

\* C11: a recorded round at index r changes, of the game state, only every
\* player's scores[r], every player's totalScore and currentRound: the
\* players, their order, ids, names and scores of the other rounds, and
\* totalRounds, isGameSetup and roundMultipliers stay as they were.
RoundFrame ==
  RoundRecorded =>
    LET r == last.pre.currentRound + 1
    IN  /\ DOMAIN gameState = DOMAIN last.pre
        /\ Len(gameState.players) = Len(last.pre.players)
        /\ \A i \in 1..Len(last.pre.players) :
             /\ DOMAIN gameState.players[i] = DOMAIN last.pre.players[i]
             /\ gameState.players[i].id = last.pre.players[i].id
             /\ gameState.players[i].name = last.pre.players[i].name
             /\ Len(gameState.players[i].scores) = Len(last.pre.players[i].scores)
             /\ \A j \in 1..Len(last.pre.players[i].scores) :
                  j # r => gameState.players[i].scores[j] = last.pre.players[i].scores[j]
        /\ gameState.totalRounds = last.pre.totalRounds
        /\ gameState.isGameSetup = last.pre.isGameSetup
        /\ gameState.roundMultipliers = last.pre.roundMultipliers

\* The second round of three players was recorded over a first round in
\* which a player had scored.
SecondRoundOverFirst ==
  /\ RoundRecorded
  /\ Len(gameState.players) = 3
  /\ last.pre.currentRound = 1
  /\ \E i \in 1..3 : last.pre.players[i].scores[1] # 0 /\ last.scores[i] # 0

\* The names and the multipliers the form holds after text is entered into
\* the player-count field, and into the round-count field.
NamesAfterCount(text) ==
  IF JsLt(ParseInt(text), Num(MIN_PLAYERS)) \/ JsGt(ParseInt(text), Num(MAX_PLAYERS))
  THEN playerNames
  ELSE ResizedNames(playerNames, ParseInt(text))

MultipliersAfterRounds(text) ==
  IF JsLt(ParseInt(text), Num(MIN_ROUNDS)) \/ JsGt(ParseInt(text), Num(MAX_ROUNDS))
  THEN roundMultipliers
  ELSE ResizedMultipliers(roundMultipliers, ParseInt(text))

\* new is old, cut, or old followed by the defaults pad(i) at positions i.
CutOrPadded(old, new, pad(_)) ==
  \A i \in 1..Len(new) : new[i] = IF i <= Len(old) THEN old[i] ELSE pad(i)

PadOne(i) == 1

\* C12: whatever was entered into the two count fields, the player count is
\* an integer in 2..10, the round count an integer in 1..50, there is one
\* name per player and one multiplier per round, a change of count keeps the
\* names and multipliers there were (padding with defaults, cutting the
\* rest), and every setup handed on has one multiplier per round.
FormGuardrails ==
  /\ ~IsNaN(playerCount)
  /\ ~JsLt(playerCount, Num(MIN_PLAYERS)) /\ ~JsGt(playerCount, Num(MAX_PLAYERS))
  /\ ~IsNaN(totalRounds)
  /\ ~JsLt(totalRounds, Num(MIN_ROUNDS)) /\ ~JsGt(totalRounds, Num(MAX_ROUNDS))
  /\ Num(Len(playerNames)) = playerCount
  /\ Num(Len(roundMultipliers)) = totalRounds
  /\ \A text \in PlayerCountTexts :
       CutOrPadded(playerNames, NamesAfterCount(text), DefaultName)
  /\ \A text \in RoundTexts :
       CutOrPadded(roundMultipliers, MultipliersAfterRounds(text), PadOne)
  /\ SetupSubmitted /\ SetupValidation(Num(Len(last.names)), last.names, last.rounds) = ERR_NONE
       => Num(Len(last.mults)) = last.rounds

\* C13: a round submission in which every field still holds 0 is refused
\* with the no-score message, the round is not recorded and currentRound
\* stays.
NoScoreGuard ==
  RoundSubmitted /\ (\A i \in 1..Len(last.scores) : last.scores[i] = 0) =>
    /\ scoreError = ERR_NO_SCORES
    /\ gameState = last.pre
    /\ gameState.currentRound = last.pre.currentRound

====
